---- MODULE Spec2Model ----
(***************************************************************************)
(* SMCBridge: the two-phase "read key info / read bytes" exchange with the *)
(* AppleSMC user client (SMCReadKey2), the 4-character key codec           *)
(* (strtoul_b / ultoa_b) and the value decoder (convertValue), modelled    *)
(* from src/SMCBridge/SMCBridge.c.                                         *)
(*                                                                         *)
(* Representation.  TLC integers are 32-bit signed, so a C uint32_t is the *)
(* record [hi, lo] of its two 16-bit halves (value hi * 2^16 + lo), and a  *)
(* C double is either a finite binary rational                             *)
(*   [cls |-> "fin", neg, mant, exp]  =  (-1)^neg * mant * 2^exp           *)
(* with mant a uint32 that is odd or zero (zero has exp = 0), or an        *)
(* infinity or a NaN.  Every double the decoder can produce has at most 32 *)
(* significant bits, so the representation is exact.                       *)
(***************************************************************************)
EXTENDS Integers, Sequences, FiniteSets, TLC

(***************************************************************************)
(* Bounds of the model.                                                    *)
(***************************************************************************)
\* longest textual key a caller passes (the code reads at most 4 characters)
MaxKeyLen == 5

(***************************************************************************)
(* Program constants.                                                      *)
(***************************************************************************)
KERNEL_INDEX_SMC == 2
SMC_CMD_READ_BYTES == 5
SMC_CMD_READ_KEYINFO == 9
\* sizeof(outputStruct.bytes), the capacity of SMCVal_t.bytes
PayloadLen == 32
\* the size argument of both codec calls in SMCReadKey2
KeyWidth == 4

\* kern_return_t codes handed back by IOConnectCallStructMethod; the code
\* only compares them with kIOReturnSuccess, so they are opaque names here
kIOReturnSuccess == "kIOReturnSuccess"
kIOReturnError == "kIOReturnError"
kIOReturnNotPrivileged == "kIOReturnNotPrivileged"
KernReturns == {kIOReturnSuccess, kIOReturnError, kIOReturnNotPrivileged}

(***************************************************************************)
(* 32-bit unsigned arithmetic on halves.                                   *)
(***************************************************************************)
Half == 256 * 256

U32(h, l) == [hi |-> h, lo |-> l]

U32Zero == U32(0, 0)

\* the uint32_t with the small value n (0 <= n < 2^16)
U32Of(n) == U32(0, n)

\* a + b modulo 2^32 (uint32_t +=)
Add32(a, b) ==
    LET l == a.lo + b.lo
    IN  U32((a.hi + b.hi + (l \div Half)) % Half, l % Half)

RECURSIVE Pow2(_)
Pow2(n) == IF n = 0 THEN 1 ELSE 2 * Pow2(n - 1)

\* byte << sh for a byte 0..255 and sh in 0..24, as the 32-bit pattern of the
\* resulting int.  For sh = 24 and byte >= 0x80 the C shift overflows int;
\* every outcome a build produces has this bit pattern once it is converted
\* to uint32_t.
Shl32(byte, sh) ==
    IF sh < 16
    THEN U32((byte * Pow2(sh)) \div Half, (byte * Pow2(sh)) % Half)
    ELSE U32((byte * Pow2(sh - 16)) % Half, 0)

\* (v >> sh) & 0xFF for sh in 0..24
ShrByte32(v, sh) ==
    IF sh >= 16
    THEN (v.hi \div Pow2(sh - 16)) % 256
    ELSE ((v.lo \div Pow2(sh)) + (v.hi % Pow2(sh)) * Pow2(16 - sh)) % 256

RECURSIVE BitOr(_, _)
BitOr(a, b) ==
    IF a = 0 THEN b
    ELSE IF b = 0 THEN a
    ELSE (IF a % 2 = 1 \/ b % 2 = 1 THEN 1 ELSE 0) + 2 * BitOr(a \div 2, b \div 2)

\* a | b on 32-bit patterns
Or32(a, b) == U32(BitOr(a.hi, b.hi), BitOr(a.lo, b.lo))

(***************************************************************************)
(* C strings: a char array is a sequence of bytes 0..255, index i of the C *)
(* array being element i + 1.                                              *)
(***************************************************************************)
\* number of characters before the first NUL (strlen); Len(s) if there is none
RECURSIVE StrLenFrom(_, _)
StrLenFrom(s, i) ==
    IF i > Len(s) \/ s[i] = 0 THEN i - 1 ELSE StrLenFrom(s, i + 1)

strlen(s) == StrLenFrom(s, 1)

\* the text a char array holds as a C string
CStr(s) == SubSeq(s, 1, strlen(s))

\* strcmp(a, b) == 0
StrEq(a, b) == CStr(a) = CStr(b)

\* the first n chars of dst after strncpy(dst, src, n): the characters of src
\* up to its terminator, then NULs
strncpy(src, n) ==
    [i \in 1..n |-> IF i <= strlen(src) THEN src[i] ELSE 0]

(***************************************************************************)
(* Key codec.                                                              *)
(***************************************************************************)
\* strtoul_b packing least-significant-byte-first (shift i * 8)
RECURSIVE strtoul_le_loop(_, _, _, _)
strtoul_le_loop(str, size, i, total) ==
    IF i >= size THEN total
    ELSE strtoul_le_loop(str, size, i + 1, Add32(total, Shl32(str[i + 1], i * 8)))

strtoul_b_LittleEndian(str, size, base) == strtoul_le_loop(str, size, 0, U32Zero)

\* strtoul_b with the loop unrolled from index i (0-based) on
RECURSIVE strtoul_loop(_, _, _, _, _)
strtoul_loop(str, size, base, i, total) ==
    IF i >= size THEN total
    ELSE IF base = 16
         THEN strtoul_loop(str, size, base, i + 1,
                           Add32(total, Shl32(str[i + 1], (size - 1 - i) * 8)))
         ELSE strtoul_loop(str, size, base, i + 1,
                           Add32(total, Shl32(str[i + 1], (size - 1 - i) * 8)))

strtoul_b(str, size, base) == strtoul_loop(str, size, base, 0, U32Zero)

\* the size chars ultoa_b writes to str
ultoa_b(val, size) ==
    [i \in 1..size |-> ShrByte32(val, (size - i) * 8)]

(***************************************************************************)
(* C doubles.                                                              *)
(***************************************************************************)
\* m / 2 for an even 32-bit m
Halve32(m) == U32(m.hi \div 2, (m.lo \div 2) + (m.hi % 2) * (Half \div 2))

\* the finite double (-1)^neg * m * 2^e, mantissa made odd
RECURSIVE Norm(_, _, _)
Norm(neg, m, e) ==
    IF m = U32Zero THEN [cls |-> "fin", neg |-> neg, mant |-> U32Zero, exp |-> 0]
    ELSE IF m.lo % 2 = 0 THEN Norm(neg, Halve32(m), e + 1)
    ELSE [cls |-> "fin", neg |-> neg, mant |-> m, exp |-> e]

\* 0.0
DblZero == Norm(FALSE, U32Zero, 0)

\* 2^32 - m for m # 0: the magnitude of the negative int with bit pattern m
Neg32(m) ==
    U32((Half - 1 - m.hi + (IF m.lo = 0 THEN 1 ELSE 0)) % Half,
        (Half - m.lo) % Half)

\* (double) of the unsigned value of a 32-bit pattern
UIntToDbl(m) == Norm(FALSE, m, 0)

\* (double) of the int with two's-complement bit pattern m
IntToDbl(m) ==
    IF m.hi >= Half \div 2 THEN Norm(TRUE, Neg32(m), 0) ELSE Norm(FALSE, m, 0)

\* line 98 with uint16_t in place of int16_t
ToInt16_Unsigned(v) == v

\* (int16_t) of an int 0..65535, as clang and gcc define the conversion
\* (reduction modulo 2^16)
ToInt16(v) == IF v >= Half \div 2 THEN v - Half ELSE v

\* d / 2^k for a finite double d (an exact operation on doubles)
DblDivPow2(d, k) ==
    IF d.mant = U32Zero THEN d ELSE [d EXCEPT !.exp = d.exp - k]

\* (double) of a small int n, -65536 < n < 65536
SmallToDbl(n) == IF n < 0 THEN Norm(TRUE, U32Of(-n), 0) ELSE Norm(FALSE, U32Of(n), 0)

\* the double equal to the IEEE-754 single with bit pattern `bits`
F32ToDbl(bits) ==
    LET s == bits.hi >= Half \div 2
        e == (bits.hi \div 128) % 256
        m == (bits.hi % 128) * Half + bits.lo
        n == 128 * Half + m
    IN  IF e = 255
        THEN IF m = 0 THEN [cls |-> "inf", neg |-> s, mant |-> U32Zero, exp |-> 0]
             ELSE [cls |-> "nan", neg |-> s, mant |-> U32Zero, exp |-> 0]
        ELSE IF e = 0
        THEN Norm(s, U32(m \div Half, m % Half), -149)
        ELSE Norm(s, U32(n \div Half, n % Half), e - 150)

(***************************************************************************)
(* Type tags, as the char arrays the string literals of convertValue hold. *)
(***************************************************************************)
Tag_sp78 == <<115, 112, 55, 56, 0>>
Tag_fpe2 == <<102, 112, 101, 50, 0>>
Tag_flt == <<102, 108, 116, 32, 0>>
Tag_ui8 == <<117, 105, 56, 32, 0>>
Tag_ui16 == <<117, 105, 49, 54, 0>>
Tag_ui32 == <<117, 105, 51, 50, 0>>

(***************************************************************************)
(* Value decoder.                                                          *)
(***************************************************************************)
\* (b0 << 8) | b1, an int 0..65535
Pack16(bytes) == BitOr(bytes[1] * 256, bytes[2])

\* the bit pattern of (b0 << 24) | (b1 << 16) | (b2 << 8) | b3
Pack32(bytes) ==
    Or32(Or32(Shl32(bytes[1], 24), Shl32(bytes[2], 16)),
         Or32(Shl32(bytes[3], 8), U32Of(bytes[4])))

\* (double)((b0 << 24) | ...): the operand is an int.  With b0 < 0x80 it is
\* the non-negative int.  With b0 >= 0x80 the shift overflows int, which is
\* undefined: a build that keeps the value in a 32-bit register returns the
\* negative int with that bit pattern (what clang and gcc emit), one that
\* widens the arithmetic returns the unsigned value.
Ui32Outcomes(bytes) ==
    IF bytes[1] < 128
    THEN {IntToDbl(Pack32(bytes))}
    ELSE {IntToDbl(Pack32(bytes)), UIntToDbl(Pack32(bytes))}

\* line 97 without its size test
Is_sp78_AnySize(val) == StrEq(val.dataType, Tag_sp78)

\* line 119 without its size test
Is_ui16_AnySize(val) == StrEq(val.dataType, Tag_ui16)

\* the tests of lines 97, 103, 109, 116, 119 and 122
Is_sp78(val) == StrEq(val.dataType, Tag_sp78) /\ val.dataSize = U32Of(2)

Is_fpe2(val) == StrEq(val.dataType, Tag_fpe2) /\ val.dataSize = U32Of(2)

Is_flt(val) == StrEq(val.dataType, Tag_flt) /\ val.dataSize = U32Of(4)

Is_ui8(val) == StrEq(val.dataType, Tag_ui8)

Is_ui16(val) == StrEq(val.dataType, Tag_ui16) /\ val.dataSize = U32Of(2)

Is_ui32(val) == StrEq(val.dataType, Tag_ui32) /\ val.dataSize = U32Of(4)

\* lines 96-126: the doubles the rows of the decoder may return
DecodeRows(val) ==
    IF Is_sp78(val)
    THEN {DblDivPow2(SmallToDbl(ToInt16(Pack16(val.bytes))), 8)}
    ELSE IF Is_fpe2(val)
    THEN {DblDivPow2(SmallToDbl(Pack16(val.bytes)), 2)}
    ELSE IF Is_flt(val)
    THEN {F32ToDbl(Pack32(val.bytes))}
    ELSE IF Is_ui8(val)
    THEN {SmallToDbl(val.bytes[1])}
    ELSE IF Is_ui16(val)
    THEN {SmallToDbl(Pack16(val.bytes))}
    ELSE IF Is_ui32(val)
    THEN Ui32Outcomes(val.bytes)
    ELSE {DblZero}

\* convertValue without lines 92-94
convertValue_NoSizeCheck(val) == DecodeRows(val)

\* the doubles convertValue(&val) may return
convertValue(val) ==
    IF val.dataSize = U32Zero THEN {DblZero} ELSE DecodeRows(val)

(***************************************************************************)
(* Records of the program.                                                 *)
(***************************************************************************)
ZeroBytes == [i \in 1..PayloadLen |-> 0]

\* SMCParamStruct after memset(.., 0, ..)
ZeroParam ==
    [key |-> U32Zero,
     keyInfo |-> [dataSize |-> U32Zero, dataType |-> U32Zero, dataAttributes |-> 0],
     result |-> 0, status |-> 0, data8 |-> 0, data32 |-> U32Zero,
     bytes |-> ZeroBytes]

\* SMCVal_t after memset(.., 0, ..)
ZeroVal ==
    [key |-> <<0, 0, 0, 0, 0>>, dataSize |-> U32Zero,
     dataType |-> <<0, 0, 0, 0, 0>>, bytes |-> ZeroBytes]

(***************************************************************************)
(* Inputs: the keys callers pass and the records the controller returns.   *)
(***************************************************************************)
Threads == {1, 2}

\* "TC0PXYZW" and "F0AcQRST": keys are prefixes of these
BaseKeys == {<<84, 67, 48, 80, 88, 89, 90, 87>>, <<70, 48, 65, 99, 81, 82, 83, 84>>}

KeyTexts == {SubSeq(b, 1, n) : b \in BaseKeys, n \in 0..MaxKeyLen}

\* what the bytes after a short key's terminator may hold
TrailBytes == {0, 88}

\* The memory at the pointer `key`: the text, its terminator and, for a text
\* of fewer than 3 characters, the bytes that follow the terminator up to
\* index 3.  Those bytes are not part of the string; a read of them returns
\* whatever lies there.
TrailLen(txt) == IF Len(txt) < KeyWidth - 1 THEN KeyWidth - 1 - Len(txt) ELSE 0

KeyMems(txt) ==
    {txt \o <<0>> \o trail : trail \in [1..TrailLen(txt) -> TrailBytes]}

KeyArgs == UNION {KeyMems(txt) : txt \in KeyTexts}

\* the 32-bit code of a 4-character tag as the controller reports it
TagCode(t) == U32(t[1] * 256 + t[2], t[3] * 256 + t[4])

\* tags the controller may report that match no literal of convertValue:
\* "xyz " and "ui8" followed by a NUL
Tag_xyz == <<120, 121, 122, 32, 0>>
Tag_ui8nul == <<117, 105, 56, 0, 0>>

RespTags ==
    {Tag_sp78, Tag_fpe2, Tag_flt, Tag_ui8, Tag_ui16, Tag_ui32, Tag_xyz, Tag_ui8nul}

\* declared sizes the controller may report (the last is 2^16 + 2)
RespSizes == {U32Of(0), U32Of(1), U32Of(2), U32Of(4), U32Of(33), U32(1, 2)}

\* a 32-byte buffer with the given first four bytes and the rest `fill`
Payload(b0, b1, b2, b3, fill) ==
    [i \in 1..PayloadLen |->
        IF i = 1 THEN b0 ELSE IF i = 2 THEN b1 ELSE IF i = 3 THEN b2
        ELSE IF i = 4 THEN b3 ELSE fill]

RespPayloads ==
    {Payload(1, 0, 0, 0, 0), Payload(255, 0, 1, 0, 170),
     Payload(63, 128, 0, 0, 0), Payload(0, 0, 1, 0, 7)}

\* the buffer of a key-info response (the code must not use it)
StaleBytes == Payload(9, 9, 9, 9, 9)

\* a record written by the controller; the fields the code never reads are
\* given fixed non-zero contents
Response(size, type, bytes) ==
    [key |-> U32(1, 1),
     keyInfo |-> [dataSize |-> size, dataType |-> type, dataAttributes |-> 212],
     result |-> 3, status |-> 1, data8 |-> 6, data32 |-> U32(0, 11),
     bytes |-> bytes]

KeyInfoResponses ==
    {Response(sz, TagCode(t), StaleBytes) : sz \in RespSizes, t \in RespTags}

ReadBytesResponses ==
    {Response(U32Of(7), TagCode(Tag_xyz), b) : b \in RespPayloads}

(***************************************************************************)
(* State.                                                                  *)
(***************************************************************************)
VARIABLES
    pc,           \* per thread: "idle", "keyinfo" (blocked in the SMCCall of
                  \* line 70), "readbytes" (blocked in that of line 81),
                  \* "done" (SMCReadKey has returned)
    key,          \* per thread: the memory at the key argument
    inputStruct,  \* per thread: local of SMCReadKey2
    outputStruct, \* per thread: local of SMCReadKey2
    val,          \* per thread: the SMCVal_t local of SMCReadKey
    result,       \* per thread: the status SMCReadKey returned, NoResult
                  \* while no returned call is pending with the caller
    value,        \* per thread: the caller's double behind `value`
    wire,         \* the calls and returns of SMCCall on the connection, in
                  \* order, of the reads in progress or just returned
    unit          \* a codec or decoder call made on its own: its operation,
                  \* arguments and result (UnitOff while reads run)

vars == <<pc, key, inputStruct, outputStruct, val, result, value, wire, unit>>

prog == <<pc, key, inputStruct, outputStruct, val, result, value, wire>>

UnitOff == [op |-> "off"]

\* the caller's double before its first read: -7.0
InitialValue == Norm(TRUE, U32Of(7), 0)

NoKey == <<0, 0, 0, 0>>

NoResult == "-"

ProgInit ==
    /\ pc = [t \in Threads |-> "idle"]
    /\ key = [t \in Threads |-> NoKey]
    /\ inputStruct = [t \in Threads |-> ZeroParam]
    /\ outputStruct = [t \in Threads |-> ZeroParam]
    /\ val = [t \in Threads |-> ZeroVal]
    /\ result = [t \in Threads |-> NoResult]
    /\ value = [t \in Threads |-> InitialValue]
    /\ wire = <<>>

Init == ProgInit /\ unit = UnitOff

\* an SMCCall entered by thread t with input record `in`
CallEvent(t, in) == [op |-> "call", t |-> t, index |-> KERNEL_INDEX_SMC, rec |-> in, status |-> "-"]

\* an SMCCall of thread t returning `status` with output record `out`
RetEvent(t, status, out) == [op |-> "ret", t |-> t, index |-> KERNEL_INDEX_SMC, rec |-> out, status |-> status]

(***************************************************************************)
(* SMCReadKey2, statement by statement.                                    *)
(***************************************************************************)
\* val after lines 64 and 66: zeroed, then strncpy(val->key, key, 4)
ValAtEntry(k) == [ZeroVal EXCEPT !.key = strncpy(k, KeyWidth) \o <<0>>]

\* inputStruct after lines 62, 67 and 68
KeyInfoRequest(k) ==
    [ZeroParam EXCEPT !.key = strtoul_b(k, KeyWidth, 16),
                      !.data8 = SMC_CMD_READ_KEYINFO]

\* line 71 left out: the status of the first call is not looked at
KeyInfoFailed_Never(st) == FALSE

\* line 82 left out: the status of the second call is not looked at
ReadBytesFailed_Never(st) == FALSE

\* the tests of lines 71 and 82
KeyInfoFailed(st) == st # kIOReturnSuccess

ReadBytesFailed(st) == st # kIOReturnSuccess

\* lines 75-76 taking the buffer of the key-info response along
ValAfterKeyInfo_WithBytes(v, out) ==
    [v EXCEPT !.dataSize = out.keyInfo.dataSize,
              !.dataType = ultoa_b(out.keyInfo.dataType, KeyWidth) \o <<v.dataType[5]>>,
              !.bytes = out.bytes]

\* val after lines 75 and 76 (val->dataType[4] stays the NUL of line 64)
ValAfterKeyInfo(v, out) ==
    [v EXCEPT !.dataSize = out.keyInfo.dataSize,
              !.dataType = ultoa_b(out.keyInfo.dataType, KeyWidth) \o <<v.dataType[5]>>]

\* lines 78-79 echoing the declared type along with the declared size
ReadBytesRequest_WithType(in, v) ==
    [in EXCEPT !.keyInfo.dataSize = v.dataSize,
               !.keyInfo.dataType = strtoul_b(v.dataType, KeyWidth, 16),
               !.data8 = SMC_CMD_READ_BYTES]

\* line 78 asking for the whole buffer instead of the declared size
ReadBytesRequest_FixedSize(in, v) ==
    [in EXCEPT !.keyInfo.dataSize = U32Of(PayloadLen), !.data8 = SMC_CMD_READ_BYTES]

\* inputStruct after lines 78 and 79
ReadBytesRequest(in, v) ==
    [in EXCEPT !.keyInfo.dataSize = v.dataSize, !.data8 = SMC_CMD_READ_BYTES]

\* val after line 86
ValAfterReadBytes(v, out) == [v EXCEPT !.bytes = out.bytes]

(***************************************************************************)
(* Operations.  IOConnectCallStructMethod is the environment: it returns   *)
(* any status and, on success, any output record; on failure the output    *)
(* record, which the code does not read, is left as it was.                *)
(***************************************************************************)
\* SMCReadKey entered by thread t with key memory k: SMCReadKey2 lines 62-68
\* and the entry into the first SMCCall
ReadKeyCall(t, k) ==
    /\ pc[t] = "idle"
    /\ inputStruct' = [inputStruct EXCEPT ![t] = KeyInfoRequest(k)]
    /\ wire' = Append(wire, CallEvent(t, KeyInfoRequest(k)))
    /\ key' = [key EXCEPT ![t] = k]
    /\ outputStruct' = [outputStruct EXCEPT ![t] = ZeroParam]
    /\ val' = [val EXCEPT ![t] = ValAtEntry(k)]
    /\ pc' = [pc EXCEPT ![t] = "keyinfo"]
    /\ UNCHANGED <<result, value, unit>>

\* lines 71-73 calling again instead of returning
KeyInfoFail_Retry(t, st) ==
    /\ pc[t] = "keyinfo"
    /\ KeyInfoFailed(st)
    /\ wire' = wire \o <<RetEvent(t, st, outputStruct[t]), CallEvent(t, inputStruct[t])>>
    /\ UNCHANGED <<pc, key, inputStruct, outputStruct, val, result, value, unit>>

\* the first SMCCall returns st, which line 71 takes for a failure: lines
\* 71-73, then SMCReadKey lines 149-153
KeyInfoFail(t, st) ==
    /\ pc[t] = "keyinfo"
    /\ KeyInfoFailed(st)
    /\ result' = [result EXCEPT ![t] = st]
    /\ wire' = Append(wire, RetEvent(t, st, outputStruct[t]))
    /\ pc' = [pc EXCEPT ![t] = "done"]
    /\ UNCHANGED <<key, inputStruct, outputStruct, val, value, unit>>

\* lines 75-79 with inputStruct declared static: the record the second
\* request is built from is the one the latest call on the connection left
KeyInfoOk_StaticInput(t, st, out) ==
    /\ pc[t] = "keyinfo"
    /\ ~KeyInfoFailed(st)
    /\ outputStruct' = [outputStruct EXCEPT ![t] = out]
    /\ LET calls == SelectSeq(wire, LAMBDA e : e.op = "call")
           v == ValAfterKeyInfo(val[t], out)
           in == ReadBytesRequest(calls[Len(calls)].rec, v)
       IN  /\ val' = [val EXCEPT ![t] = v]
           /\ inputStruct' = [inputStruct EXCEPT ![t] = in]
           /\ wire' = wire \o <<RetEvent(t, st, out), CallEvent(t, in)>>
    /\ pc' = [pc EXCEPT ![t] = "readbytes"]
    /\ UNCHANGED <<key, result, value, unit>>

\* the first SMCCall returns st with output record out and line 71 lets it
\* pass: lines 75-79 and the entry into the second SMCCall
KeyInfoOk(t, st, out) ==
    /\ pc[t] = "keyinfo"
    /\ ~KeyInfoFailed(st)
    /\ outputStruct' = [outputStruct EXCEPT ![t] = out]
    /\ LET v == ValAfterKeyInfo(val[t], out)
           in == ReadBytesRequest(inputStruct[t], v)
       IN  /\ val' = [val EXCEPT ![t] = v]
           /\ inputStruct' = [inputStruct EXCEPT ![t] = in]
           /\ wire' = wire \o <<RetEvent(t, st, out), CallEvent(t, in)>>
    /\ pc' = [pc EXCEPT ![t] = "readbytes"]
    /\ UNCHANGED <<key, result, value, unit>>

\* lines 82-84 and 149-153 with *value set to 0.0 on the failure path
ReadBytesFail_WritesValue(t, st) ==
    /\ pc[t] = "readbytes"
    /\ ReadBytesFailed(st)
    /\ result' = [result EXCEPT ![t] = st]
    /\ value' = [value EXCEPT ![t] = DblZero]
    /\ wire' = Append(wire, RetEvent(t, st, outputStruct[t]))
    /\ pc' = [pc EXCEPT ![t] = "done"]
    /\ UNCHANGED <<key, inputStruct, outputStruct, val, unit>>

\* the second SMCCall returns st, which line 82 takes for a failure: lines
\* 82-84, then SMCReadKey lines 149-153
ReadBytesFail(t, st) ==
    /\ pc[t] = "readbytes"
    /\ ReadBytesFailed(st)
    /\ result' = [result EXCEPT ![t] = st]
    /\ wire' = Append(wire, RetEvent(t, st, outputStruct[t]))
    /\ pc' = [pc EXCEPT ![t] = "done"]
    /\ UNCHANGED <<key, inputStruct, outputStruct, val, value, unit>>

\* the second SMCCall returns st with output record out and line 82 lets it
\* pass: lines 86-88, then SMCReadKey lines 149-153
ReadBytesOk(t, st, out) ==
    /\ pc[t] = "readbytes"
    /\ ~ReadBytesFailed(st)
    /\ outputStruct' = [outputStruct EXCEPT ![t] = out]
    /\ LET v == ValAfterReadBytes(val[t], out)
       IN  /\ val' = [val EXCEPT ![t] = v]
           /\ \E d \in convertValue(v) : value' = [value EXCEPT ![t] = d]
    /\ result' = [result EXCEPT ![t] = kIOReturnSuccess]
    /\ wire' = Append(wire, RetEvent(t, st, out))
    /\ pc' = [pc EXCEPT ![t] = "done"]
    /\ UNCHANGED <<key, inputStruct, unit>>

\* the events of `w` that are not thread t's
RECURSIVE Without(_, _)
Without(w, t) ==
    IF w = <<>> THEN <<>>
    ELSE IF Head(w).t = t THEN Without(Tail(w), t)
    ELSE <<Head(w)>> \o Without(Tail(w), t)

\* the caller takes the result; the locals of the finished call are gone
ReadKeyDone(t) ==
    /\ pc[t] = "done"
    /\ pc' = [pc EXCEPT ![t] = "idle"]
    /\ key' = [key EXCEPT ![t] = NoKey]
    /\ inputStruct' = [inputStruct EXCEPT ![t] = ZeroParam]
    /\ outputStruct' = [outputStruct EXCEPT ![t] = ZeroParam]
    /\ val' = [val EXCEPT ![t] = ZeroVal]
    /\ result' = [result EXCEPT ![t] = NoResult]
    /\ wire' = Without(wire, t)
    /\ UNCHANGED <<value, unit>>

\* one caller, reading key after key on the connection
Caller == CHOOSE t \in Threads : \A u \in Threads : t <= u

Next ==
    \/ \E k \in KeyArgs : ReadKeyCall(Caller, k)
    \/ \E st \in KernReturns : KeyInfoFail(Caller, st)
    \/ \E st \in KernReturns, out \in KeyInfoResponses :
           KeyInfoOk(Caller, st, out)
    \/ \E st \in KernReturns : ReadBytesFail(Caller, st)
    \/ \E st \in KernReturns, out \in ReadBytesResponses :
           ReadBytesOk(Caller, st, out)
    \/ ReadKeyDone(Caller)

Spec == Init /\ [][Next]_vars

(***************************************************************************)
(* Two callers reading on the same connection, their calls interleaved in  *)
(* any order (nothing in SMCReadKey serializes them).                      *)
(***************************************************************************)
\* "TC0P" and "F0Ac"
ConcKeys == {<<84, 67, 48, 80, 0>>, <<70, 48, 65, 99, 0>>}

ConcKeyInfoResponses ==
    {Response(U32Of(2), TagCode(Tag_sp78), StaleBytes),
     Response(U32Of(4), TagCode(Tag_ui32), StaleBytes)}

ConcReadBytesResponses ==
    {Response(U32Of(7), TagCode(Tag_xyz), b) :
        b \in {Payload(1, 0, 0, 0, 0), Payload(0, 0, 1, 0, 7)}}

ConcReturns == {kIOReturnSuccess, kIOReturnError}

ConcNext ==
    \E t \in Threads :
        \/ \E k \in ConcKeys : ReadKeyCall(t, k)
        \/ \E st \in ConcReturns : KeyInfoFail(t, st)
        \/ \E st \in ConcReturns, out \in ConcKeyInfoResponses : KeyInfoOk(t, st, out)
        \/ \E st \in ConcReturns : ReadBytesFail(t, st)
        \/ \E st \in ConcReturns, out \in ConcReadBytesResponses : ReadBytesOk(t, st, out)
        \/ ReadKeyDone(t)

SpecConc == Init /\ [][ConcNext]_vars

(***************************************************************************)
(* The key codec on its own: strtoul_b on a 4-character key, then ultoa_b  *)
(* on the result.                                                          *)
(***************************************************************************)
\* characters of the keys the codec is run on
CodecChars == {1, 32, 48, 67, 80, 84, 122, 127}

CodecInit ==
    /\ ProgInit
    /\ \E k \in [1..KeyWidth -> CodecChars], b \in {10, 16} :
           unit = [op |-> "key", str |-> k \o <<0>>, base |-> b]

Encode ==
    /\ unit.op = "key"
    /\ unit' = [op |-> "encoded", str |-> unit.str, base |-> unit.base,
                code |-> strtoul_b(unit.str, KeyWidth, unit.base)]
    /\ UNCHANGED prog

Decode ==
    /\ unit.op = "encoded"
    /\ unit' = [op |-> "decoded", str |-> unit.str, base |-> unit.base,
                code |-> unit.code, text |-> ultoa_b(unit.code, KeyWidth)]
    /\ UNCHANGED prog

CodecNext == Encode \/ Decode

SpecCodec == CodecInit /\ [][CodecNext]_vars

(***************************************************************************)
(* The decoder on its own: convertValue on the SMCVal_t a successful       *)
(* SMCReadKey2 can leave (any size, any tag, any payload).                 *)
(***************************************************************************)
ByteSamples == {0, 1, 127, 128, 255}

ValOf(size, tag, bytes) ==
    [key |-> <<84, 67, 48, 80, 0>>, dataSize |-> size, dataType |-> tag,
     bytes |-> bytes]

\* every size and tag on sampled payloads, and `sp78` of size 2 on every pair
\* of leading bytes
DecodeInit ==
    /\ ProgInit
    /\ \/ \E sz \in RespSizes, t \in RespTags :
            \E b0 \in ByteSamples, b1 \in ByteSamples,
               b2 \in ByteSamples, b3 \in ByteSamples :
                unit = [op |-> "val", v |-> ValOf(sz, t, Payload(b0, b1, b2, b3, 170))]
       \/ \E b0 \in 0..255, b1 \in 0..255 :
            unit = [op |-> "val",
                    v |-> ValOf(U32Of(2), Tag_sp78, Payload(b0, b1, 85, 85, 85))]

Convert ==
    /\ unit.op = "val"
    /\ \E d \in convertValue(unit.v) :
           unit' = [op |-> "converted", v |-> unit.v, out |-> d]
    /\ UNCHANGED prog

DecodeNext == Convert

SpecDecode == DecodeInit /\ [][DecodeNext]_vars

(***************************************************************************)
(* Line 86 and the decoder on two read-bytes responses for the same        *)
(* declared size n and tag, the two buffers equal on their first n bytes.  *)
(***************************************************************************)
\* leading bytes and fill of the first buffer, and of what the second holds
\* beyond the first n bytes
FirstBytes == {1, 255}

OtherBytes == {0, 128}

\* p on the first n bytes, q beyond
Merge(p, q, n) == [i \in 1..PayloadLen |-> IF i <= n THEN p[i] ELSE q[i]]

PairInit ==
    /\ ProgInit
    /\ \E n \in 0..PayloadLen, t \in RespTags :
         \E a0 \in FirstBytes, a1 \in FirstBytes, a2 \in FirstBytes, a3 \in FirstBytes :
           \E b0 \in OtherBytes, b1 \in OtherBytes, b2 \in OtherBytes, b3 \in OtherBytes :
             unit = [op |-> "pair", n |-> n,
                     v |-> ValOf(U32Of(n), t, ZeroBytes),
                     out1 |-> Response(U32Of(7), TagCode(Tag_xyz),
                                       Payload(a0, a1, a2, a3, 170)),
                     out2 |-> Response(U32Of(7), TagCode(Tag_xyz),
                                       Merge(Payload(a0, a1, a2, a3, 170),
                                             Payload(b0, b1, b2, b3, 85), n))]

\* line 86 and convertValue on each of the two responses
ConvertPair ==
    /\ unit.op = "pair"
    /\ LET v1 == ValAfterReadBytes(unit.v, unit.out1)
           v2 == ValAfterReadBytes(unit.v, unit.out2)
       IN  unit' = [op |-> "paired", n |-> unit.n,
                    out1 |-> unit.out1, out2 |-> unit.out2,
                    v1 |-> v1, v2 |-> v2,
                    outs1 |-> convertValue(v1), outs2 |-> convertValue(v2)]
    /\ UNCHANGED prog

PairNext == ConvertPair

SpecPair == PairInit /\ [][PairNext]_vars

(***************************************************************************)
(* Properties of the two-phase read.                                       *)
(***************************************************************************)
\* thread t's events on the connection, in order
Mine(t) == SelectSeq(wire, LAMBDA e : e.t = t)

\* the returns among them
Rets(t) == SelectSeq(wire, LAMBDA e : e.t = t /\ e.op = "ret")

IsKeyInfoCall(e) == e.op = "call" /\ e.rec.data8 = SMC_CMD_READ_KEYINFO

IsReadBytesCall(e) == e.op = "call" /\ e.rec.data8 = SMC_CMD_READ_BYTES

IsOkRet(e) == e.op = "ret" /\ e.status = kIOReturnSuccess

IsBadRet(e) == e.op = "ret" /\ e.status # kIOReturnSuccess

\* C1: once the key-info call of a read has returned success, the read-bytes
\* request is the read's next event; it comes after that return, carries the
\* key of the key-info request, and its keyInfo.dataSize is the dataSize of
\* the key-info response.
C1_ReadBytesEchoesKeyInfo ==
    \A t \in Threads :
        LET w == Mine(t)
        IN  /\ \A j \in 1..Len(w) :
                   IsReadBytesCall(w[j]) =>
                       /\ j = 3
                       /\ IsKeyInfoCall(w[1])
                       /\ IsOkRet(w[2])
                       /\ w[3].rec.key = w[1].rec.key
                       /\ w[3].rec.keyInfo.dataSize = w[2].rec.keyInfo.dataSize
            /\ (Len(w) >= 2 /\ IsOkRet(w[2])) =>
                   (Len(w) >= 3 /\ IsReadBytesCall(w[3]))

\* a read-bytes request echoing the declared size 2^16 + 2 for the key "TC0P"
C1_Witness ==
    \E j \in 1..Len(wire) :
        /\ IsReadBytesCall(wire[j])
        /\ wire[j].rec.keyInfo.dataSize = U32(1, 2)
        /\ wire[j].rec.key = U32(84 * 256 + 67, 48 * 256 + 80)

\* C2: a read whose key-info call returned a non-success status issues no
\* read-bytes request, and every read-bytes request directly follows a
\* successful key-info return of the same read.
C2_NoReadBytesAfterKeyInfoFailure ==
    \A t \in Threads :
        LET w == Mine(t)
        IN  /\ (Len(w) >= 2 /\ IsBadRet(w[2])) =>
                   /\ Len(w) = 2
                   /\ \A j \in 1..Len(w) : ~IsReadBytesCall(w[j])
            /\ \A j \in 1..Len(w) :
                   IsReadBytesCall(w[j]) =>
                       /\ j > 2
                       /\ IsOkRet(w[j - 1])
                       /\ IsKeyInfoCall(w[j - 2])

\* a read that ended at a failed key-info call
C2_Witness ==
    /\ pc[Caller] = "done"
    /\ result[Caller] = kIOReturnError
    /\ Len(Mine(Caller)) = 2
    /\ IsKeyInfoCall(Mine(Caller)[1])
    /\ IsBadRet(Mine(Caller)[2])

\* C3: SMCReadKey returns the status of the first call that returned
\* non-success, unchanged, and returns success only when both calls did.
C3_StatusVerbatim ==
    \A t \in Threads :
        pc[t] = "done" =>
            LET r == Rets(t)
            IN  /\ Len(r) \in {1, 2}
                /\ r[1].status # kIOReturnSuccess => result[t] = r[1].status
                /\ r[1].status = kIOReturnSuccess =>
                       (Len(r) = 2 /\ result[t] = r[2].status)
                /\ result[t] = kIOReturnSuccess =>
                       (Len(r) = 2 /\ \A i \in 1..2 : r[i].status = kIOReturnSuccess)

\* a read whose second call failed with the second error code
C3_Witness ==
    /\ pc[Caller] = "done"
    /\ Len(Rets(Caller)) = 2
    /\ Rets(Caller)[2].status = kIOReturnNotPrivileged
    /\ result[Caller] = kIOReturnNotPrivileged

\* the four characters of a 32-bit tag code, most significant first
TagChars(code) ==
    <<code.hi \div 256, code.hi % 256, code.lo \div 256, code.lo % 256>>

\* C4 as claimed: when SMCReadKey2 returns non-success, the SMCVal_t it
\* leaves holds no declared size, no type tag and no payload byte.
C4_NoPartialResult ==
    \A t \in Threads :
        (pc[t] = "done" /\ result[t] # kIOReturnSuccess) =>
            /\ val[t].dataSize = U32Zero
            /\ val[t].dataType = <<0, 0, 0, 0, 0>>
            /\ val[t].bytes = [i \in 1..PayloadLen |-> 0]

\* C4 amended: when SMCReadKey2 returns non-success the SMCVal_t holds no
\* payload byte; it holds no declared size and no tag if the key-info call
\* failed, and the declared size and tag of the key-info response if that
\* call succeeded and the read-bytes call failed.
C4_NoPartialPayload ==
    \A t \in Threads :
        (pc[t] = "done" /\ result[t] # kIOReturnSuccess) =>
            LET r == Rets(t)
            IN  /\ val[t].bytes = [i \in 1..PayloadLen |-> 0]
                /\ Len(r) = 1 =>
                       /\ val[t].dataSize = U32Zero
                       /\ val[t].dataType = <<0, 0, 0, 0, 0>>
                /\ Len(r) = 2 =>
                       /\ val[t].dataSize = r[1].rec.keyInfo.dataSize
                       /\ val[t].dataType = TagChars(r[1].rec.keyInfo.dataType) \o <<0>>

\* a read that failed at the read-bytes call after the controller declared
\* `sp78` of size 2
C4_Witness ==
    /\ pc[Caller] = "done"
    /\ result[Caller] # kIOReturnSuccess
    /\ Len(Rets(Caller)) = 2
    /\ val[Caller].dataSize = U32Of(2)
    /\ val[Caller].dataType = <<115, 112, 55, 56, 0>>
    /\ val[Caller].bytes = [i \in 1..PayloadLen |-> 0]

(***************************************************************************)
(* Properties of the key codec.                                            *)
(***************************************************************************)
\* character i (1-based) of a text, NUL beyond its end
CharAt(txt, i) == IF i <= Len(txt) THEN txt[i] ELSE 0

\* the first four characters of a text, most significant first, NUL-padded
PackText(txt) ==
    U32(CharAt(txt, 1) * 256 + CharAt(txt, 2), CharAt(txt, 3) * 256 + CharAt(txt, 4))

\* C5: for a 4-character ASCII key and either base, strtoul_b puts character
\* 0 in the most significant byte and character 3 in the least significant
\* one, and ultoa_b of the result gives the four characters back.
C5_CodecRoundTrip ==
    /\ unit.op \in {"encoded", "decoded"} =>
           /\ unit.code.hi = unit.str[1] * 256 + unit.str[2]
           /\ unit.code.lo = unit.str[3] * 256 + unit.str[4]
    /\ unit.op = "decoded" => unit.text = SubSeq(unit.str, 1, 4)

\* "TC0P" encoded with base 10 to 0x54433050 and decoded back
C5_Witness ==
    /\ unit.op = "decoded"
    /\ unit.base = 10
    /\ unit.str = <<84, 67, 48, 80, 0>>
    /\ unit.code = U32(21571, 12368)
    /\ unit.text = <<84, 67, 48, 80>>

\* C6 as claimed: the key of the request is the first four characters of
\* the textual key, a key of fewer than four characters padded with zero
\* bytes, so that it depends on the characters of the key alone.
C6_ShortKeyZeroPadded ==
    \A t \in Threads :
        pc[t] # "idle" => inputStruct[t].key = PackText(CStr(key[t]))

(***************************************************************************)
(* Properties of the decoder.                                              *)
(***************************************************************************)
\* m * 2, m < 2^31
Double32(m) == U32((m.hi * 2 + (m.lo \div (Half \div 2))) % Half, (m.lo * 2) % Half)

\* m * 2^e, the product below 2^32
RECURSIVE TimesPow2(_, _)
TimesPow2(m, e) == IF e <= 0 THEN m ELSE TimesPow2(Double32(m), e - 1)

Abs(n) == IF n < 0 THEN -n ELSE n

IsZeroDbl(d) == d.cls = "fin" /\ ~d.neg /\ d.mant = [hi |-> 0, lo |-> 0]

\* C7 as claimed: `ui32` of size 4 decodes to the unsigned big-endian value
\* of the four bytes, never to a negative number.
C7_Ui32Unsigned ==
    (/\ unit.op = "converted"
     /\ unit.v.dataType = <<117, 105, 51, 50, 0>>
     /\ unit.v.dataSize = U32(0, 4)) =>
        /\ unit.out.cls = "fin"
        /\ ~unit.out.neg
        /\ unit.out.exp >= 0
        /\ TimesPow2(unit.out.mant, unit.out.exp)
               = U32(unit.v.bytes[1] * 256 + unit.v.bytes[2],
                     unit.v.bytes[3] * 256 + unit.v.bytes[4])

\* C8: `sp78` of size 2 decodes to s / 256, s the two's-complement signed
\* 16-bit value of the big-endian pair (b0, b1).
C8_Sp78Signed ==
    (/\ unit.op = "converted"
     /\ unit.v.dataType = <<115, 112, 55, 56, 0>>
     /\ unit.v.dataSize = U32(0, 2)) =>
        LET b0 == unit.v.bytes[1]
            b1 == unit.v.bytes[2]
            s == IF b0 < 128 THEN b0 * 256 + b1 ELSE b0 * 256 + b1 - 65536
            d == unit.out
        IN  /\ d.cls = "fin"
            /\ IF s = 0 THEN IsZeroDbl(d)
               ELSE /\ d.neg = (s < 0)
                    /\ d.mant.hi = 0
                    /\ d.exp \in -8..7
                    /\ d.mant.lo * Pow2(d.exp + 8) = Abs(s)

\* [0xFF, 0x00] decoded as `sp78` to -1.0
C8_Witness ==
    /\ unit.op = "converted"
    /\ unit.v.dataType = <<115, 112, 55, 56, 0>>
    /\ unit.v.dataSize = U32(0, 2)
    /\ unit.v.bytes[1] = 255
    /\ unit.v.bytes[2] = 0
    /\ unit.out = [cls |-> "fin", neg |-> TRUE, mant |-> U32(0, 1), exp |-> 0]

\* C9: declared size 0 decodes to 0.0 whatever the tag and the payload.
C9_SizeZeroIsZero ==
    (unit.op = "converted" /\ unit.v.dataSize = U32(0, 0)) => IsZeroDbl(unit.out)

\* `ui8 ` of declared size 0 with first byte 255 decoded to 0.0
C9_Witness ==
    /\ unit.op = "converted"
    /\ unit.v.dataSize = U32(0, 0)
    /\ unit.v.dataType = <<117, 105, 56, 32, 0>>
    /\ unit.v.bytes[1] = 255
    /\ IsZeroDbl(unit.out)

\* (tag, size) pairs that match no row: an unknown tag, or a known tag other
\* than `ui8 ` with a size that is not its required size
NoRow(v) ==
    LET tag == SubSeq(v.dataType, 1, 4)
    IN  \/ tag \notin {<<115, 112, 55, 56>>, <<102, 112, 101, 50>>,
                       <<102, 108, 116, 32>>, <<117, 105, 56, 32>>,
                       <<117, 105, 49, 54>>, <<117, 105, 51, 50>>}
        \/ /\ tag \in {<<115, 112, 55, 56>>, <<102, 112, 101, 50>>, <<117, 105, 49, 54>>}
           /\ v.dataSize # U32(0, 2)
        \/ /\ tag \in {<<102, 108, 116, 32>>, <<117, 105, 51, 50>>}
           /\ v.dataSize # U32(0, 4)

\* C10: a read whose two calls succeeded returns success, and when the
\* declared (tag, size) pair matches no row of the decoder the value it
\* delivers is 0.0.
C10_FallbackZero ==
    \A t \in Threads :
        (/\ pc[t] = "done"
         /\ Len(Rets(t)) = 2
         /\ \A i \in 1..2 : Rets(t)[i].status = kIOReturnSuccess) =>
            /\ result[t] = kIOReturnSuccess
            /\ NoRow(val[t]) => IsZeroDbl(value[t])

\* a successful read of a key declared `xyz ` of size 2 with a non-zero
\* payload, delivering 0.0
C10_Witness ==
    /\ pc[Caller] = "done"
    /\ result[Caller] = kIOReturnSuccess
    /\ val[Caller].dataType = <<120, 121, 122, 32, 0>>
    /\ val[Caller].dataSize = U32(0, 2)
    /\ val[Caller].bytes[1] = 255
    /\ IsZeroDbl(value[Caller])

(***************************************************************************)
(* Properties of the declared size and of the number of calls.             *)
(***************************************************************************)
\* a 32-bit value that is at most the capacity of the payload buffer
AtMostPayloadLen(u) == u.hi = 0 /\ u.lo <= 32

\* C11 as claimed: the declared size held in val and the declared size
\* echoed in a read-bytes request are at most 32, whatever size the
\* controller reports.
C11_DeclaredSizeBounded ==
    /\ \A t \in Threads : AtMostPayloadLen(val[t].dataSize)
    /\ \A j \in 1..Len(wire) :
           IsReadBytesCall(wire[j]) => AtMostPayloadLen(wire[j].rec.keyInfo.dataSize)

\* the calls among thread t's events
Calls(t) == SelectSeq(wire, LAMBDA e : e.t = t /\ e.op = "call")

\* C12: a read issues the key-info request exactly once and the read-bytes
\* request at most once, exactly once if and only if the key-info call
\* succeeded; it makes at most two calls, whatever statuses they return.
C12_NoRetry ==
    \A t \in Threads :
        LET c == Calls(t)
            r == Rets(t)
        IN  /\ Len(c) <= 2
            /\ pc[t] # "idle" => (Len(c) >= 1 /\ IsKeyInfoCall(c[1]))
            /\ Len(c) = 2 => (IsReadBytesCall(c[2]) /\ Len(r) >= 1 /\ IsOkRet(r[1]))
            /\ (Len(r) >= 1 /\ IsOkRet(r[1])) => Len(c) = 2
            /\ pc[t] = "done" => Len(r) = Len(c)

\* a read that made both calls, the second failing, and returned
C12_Witness ==
    /\ pc[Caller] = "done"
    /\ Len(Calls(Caller)) = 2
    /\ IsKeyInfoCall(Calls(Caller)[1])
    /\ IsReadBytesCall(Calls(Caller)[2])
    /\ IsBadRet(Rets(Caller)[2])
    /\ result[Caller] = kIOReturnError

(***************************************************************************)
(* Properties of interleaved reads.                                        *)
(***************************************************************************)
\* the four bytes at a key pointer, most significant first
PackMem(k) == U32(k[1] * 256 + k[2], k[3] * 256 + k[4])

\* C13: with two callers' reads interleaved in any order on one connection,
\* each caller's requests carry that caller's own key, its read-bytes
\* request echoes the size of its own key-info response, and what its read
\* returns comes from the responses to its own two requests.
C13_OwnKeyOwnResponses ==
    \A t \in Threads :
        pc[t] # "idle" =>
            LET w == Mine(t)
            IN  /\ IsKeyInfoCall(w[1])
                /\ w[1].rec.key = PackMem(key[t])
                /\ Len(w) >= 3 =>
                       /\ IsReadBytesCall(w[3])
                       /\ w[3].rec.key = PackMem(key[t])
                       /\ w[3].rec.keyInfo.dataSize = w[2].rec.keyInfo.dataSize
                /\ pc[t] = "done" => result[t] = w[Len(w)].status
                /\ (pc[t] = "done" /\ result[t] = kIOReturnSuccess) =>
                       /\ Len(w) = 4
                       /\ val[t].dataSize = w[2].rec.keyInfo.dataSize
                       /\ val[t].dataType = TagChars(w[2].rec.keyInfo.dataType) \o <<0>>
                       /\ val[t].bytes = w[4].rec.bytes

\* both callers blocked in their read-bytes calls for different keys and
\* different declared sizes, the second caller's key-info exchange having
\* run between the first caller's key-info call and its return
C13_Witness ==
    /\ Len(wire) = 6
    /\ wire[1].t = 1 /\ wire[2].t = 2 /\ wire[3].t = 2 /\ wire[5].t = 1
    /\ pc[1] = "readbytes" /\ pc[2] = "readbytes"
    /\ key[1] # key[2]
    /\ inputStruct[1].keyInfo.dataSize = U32(0, 2)
    /\ inputStruct[2].keyInfo.dataSize = U32(0, 4)
    /\ inputStruct[1].key = U32(21571, 12368)
    /\ inputStruct[2].key # inputStruct[1].key

(***************************************************************************)
(* Properties of the request records.                                      *)
(***************************************************************************)
\* C14: the key-info request holds the encoded key (the four bytes at the
\* key pointer, most significant first), the selector 9 in data8 and zero
\* in every other field; the read-bytes request is that record with the
\* selector 5 and the declared size of the key-info response, and nothing
\* else of the response.
C14_RequestFraming ==
    \A t \in Threads :
        pc[t] # "idle" =>
            LET w == Mine(t)
            IN  /\ w[1].op = "call"
                /\ w[1].rec =
                       [key |-> PackMem(key[t]),
                        keyInfo |-> [dataSize |-> U32(0, 0), dataType |-> U32(0, 0),
                                     dataAttributes |-> 0],
                        result |-> 0, status |-> 0, data8 |-> 9, data32 |-> U32(0, 0),
                        bytes |-> [i \in 1..32 |-> 0]]
                /\ Len(w) >= 3 =>
                       /\ w[3].op = "call"
                       /\ w[3].rec =
                              [w[1].rec EXCEPT
                                  !.data8 = 5,
                                  !.keyInfo.dataSize = w[2].rec.keyInfo.dataSize]

\* a read-bytes request echoing size 4 and nothing else of a key-info
\* response whose type, attributes, result, status and buffer are non-zero
C14_Witness ==
    LET w == Mine(Caller)
    IN  /\ Len(w) >= 3
        /\ w[2].rec.keyInfo.dataType # U32(0, 0)
        /\ w[2].rec.keyInfo.dataAttributes # 0
        /\ w[2].rec.result # 0
        /\ w[2].rec.bytes[1] # 0
        /\ w[3].rec.data8 = 5
        /\ w[3].rec.keyInfo.dataSize = U32(0, 4)
        /\ w[3].rec.keyInfo.dataType = U32(0, 0)
        /\ w[3].rec.bytes[1] = 0

(***************************************************************************)
(* Properties of the bytes beyond the declared size.                       *)
(***************************************************************************)
\* C15: line 86 copies all 32 bytes of the response whatever the declared
\* size, and for every tag and declared size n in 0..32 two payloads equal
\* on their first n bytes decode to the same value (the same set of values
\* a build may return).
C15_TrailingBytesIgnored ==
    unit.op = "paired" =>
        /\ unit.v1.bytes = unit.out1.bytes
        /\ unit.v2.bytes = unit.out2.bytes
        /\ (\A i \in 1..unit.n : unit.v1.bytes[i] = unit.v2.bytes[i]) =>
               unit.outs1 = unit.outs2

\* `ui8 ` of declared size 1: two payloads with first byte 255 that differ
\* in byte 1 and in byte 31, both copied whole and both decoded to 255.0
C15_Witness ==
    /\ unit.op = "paired"
    /\ unit.n = 1
    /\ unit.v1.dataType = <<117, 105, 56, 32, 0>>
    /\ unit.v1.bytes[1] = 255 /\ unit.v2.bytes[1] = 255
    /\ unit.v1.bytes[2] # unit.v2.bytes[2]
    /\ unit.v1.bytes[32] = 170 /\ unit.v2.bytes[32] = 85
    /\ unit.outs1 = {[cls |-> "fin", neg |-> FALSE, mant |-> U32(0, 255), exp |-> 0]}
    /\ unit.outs2 = unit.outs1

(***************************************************************************)
(* Properties of the caller's output.                                      *)
(***************************************************************************)
\* C16: in the step in which SMCReadKey returns, *value becomes what
\* convertValue gives for the size and tag of the key-info response and the
\* bytes of the read-bytes response if both calls of the read succeeded, and
\* SMCReadKey returns success; otherwise, and in every other step, *value
\* stays as it was, and a return is a non-success one.
C16_ValueWrittenIffSuccess ==
    [][\A t \in Threads :
          LET r == SelectSeq(wire', LAMBDA e : e.t = t /\ e.op = "ret")
              returns == pc[t] # "done" /\ pc'[t] = "done"
          IN  IF /\ returns
                 /\ Len(r) = 2
                 /\ r[1].status = kIOReturnSuccess
                 /\ r[2].status = kIOReturnSuccess
              THEN /\ result'[t] = kIOReturnSuccess
                   /\ value'[t] \in
                          convertValue(
                              [key |-> val'[t].key,
                               dataSize |-> r[1].rec.keyInfo.dataSize,
                               dataType |-> TagChars(r[1].rec.keyInfo.dataType) \o <<0>>,
                               bytes |-> r[2].rec.bytes])
              ELSE /\ value'[t] = value[t]
                   /\ returns => result'[t] # kIOReturnSuccess]_vars

\* a read declared `ui32` of size 4 that failed at its second call and left
\* the 1.0 of an earlier read in *value
C16_Witness ==
    /\ pc[Caller] = "done"
    /\ result[Caller] = kIOReturnNotPrivileged
    /\ Len(Rets(Caller)) = 2
    /\ val[Caller].dataSize = U32(0, 4)
    /\ val[Caller].dataType = <<117, 105, 51, 50, 0>>
    /\ value[Caller] = [cls |-> "fin", neg |-> FALSE, mant |-> U32(0, 1), exp |-> 0]

====
